---- MODULE Spec2Model ----
(***************************************************************************)
(* A model of go-fq: the query evaluator (eval, evalMapQuery, getField),   *)
(* the comparison helpers (isEqual, compareValues, toNumber, isNil), the   *)
(* operator library, the bulk entry point Filter, the streaming entry      *)
(* point FilterC, the JSONL file source JSONLFileSourceStream and the      *)
(* command line of cmd/fq (parseFilters, process, output).                 *)
(*                                                                         *)
(* Go values (interface{}) are records tagged with their kind k.  A panic  *)
(* is the outcome "panic"; an evaluation yields a SET of possible outcomes *)
(* because Go visits the entries of a map in an unspecified order.         *)
(***************************************************************************)
EXTENDS Integers, Sequences, FiniteSets, TLC

VARIABLES
    data, query, skip, limit,          \* the arguments of Filter / FilterC
    produced, inputClosed,             \* the input channel and its producer
    pc, item, matched, sent, received, \* the FilterC goroutine
    outs,                              \* history: outcome of eval per received item
    results, errors,                   \* what the two consumers have received
    outClosed, errClosed,              \* close(output), close(errCh)
    fpc, fresult, ferr, fouts,         \* one call of the bulk Filter
    evQuery, evValue, evOut,           \* one call of eval
    file, opened,                      \* the lines of the file; os.Open succeeded
    spc, lineNum,                      \* the JSONLFileSourceStream goroutine
    srcOutput, srcErrCh,               \* the buffers of its output and errCh
    srcOutputClosed, srcErrChClosed,   \* close(output), close(errCh)
    gotObjs, gotErrs,                  \* what the readers of the two have received
    filters,                           \* the filter expressions of the command line
    epc, pending,                      \* the error goroutine of process
    srcErrNil, filterErrNil,           \* its srcErrCh, filterErrCh set to nil
    errorCh, done,                     \* the buffer of errorCh; close(done)
    mpc, outputErr, processErr         \* process itself and what it returns

vars == <<data, query, skip, limit, produced, inputClosed, pc, item, matched,
          sent, received, outs, results, errors, outClosed, errClosed,
          fpc, fresult, ferr, fouts, evQuery, evValue, evOut,
          file, opened, spc, lineNum, srcOutput, srcErrCh,
          srcOutputClosed, srcErrChClosed, gotObjs, gotErrs,
          filters, epc, pending, srcErrNil, filterErrNil, errorCh, done,
          mpc, outputErr, processErr>>

streamVars == <<produced, inputClosed, pc, item, matched, sent, received, outs,
                results, errors, outClosed, errClosed>>
bulkVars == <<fpc, fresult, ferr, fouts>>
argVars == <<data, query, skip, limit>>
evalVars == <<evQuery, evValue, evOut>>
sourceVars == <<file, opened, spc, lineNum, srcOutput, srcErrCh,
                srcOutputClosed, srcErrChClosed, gotObjs, gotErrs>>
cliVars == <<filters, epc, pending, srcErrNil, filterErrNil, errorCh, done,
             mpc, outputErr, processErr>>

---------------------------------------------------------------------------
(* Bounds of the model. *)

\* longest input sequence
MaxLen == 3
\* largest skip and largest limit
MaxPage == 2
\* most sub-queries given to And and to Or
MaxArgs == 2

---------------------------------------------------------------------------
(* Go values. *)

Nil == [k |-> "nil"]
IntV(n) == [k |-> "int", n |-> n]
Float64V(n) == [k |-> "float64", n |-> n]
\* a number of the numeric kind kd
NumV(kd, n) == [k |-> kd, n |-> n]
\* the integer 2^53 + n of the 64-bit kind kd (int, int64, uint, uint64), n >= 0
BigV(kd, n) == [k |-> kd, n |-> n, big |-> 1]
\* a string is the sequence of its bytes
StrV(s) == [k |-> "string", s |-> s]
BoolV(b) == [k |-> "bool", b |-> b]
TimeV(n) == [k |-> "time", n |-> n]
\* []interface{}
SliceV(e) == [k |-> "slice", isnil |-> FALSE, e |-> e]
NilSlice == [k |-> "slice", isnil |-> TRUE, e |-> <<>>]
\* map[string]interface{}, and the query document Q
MapV(m) == [k |-> "map", isnil |-> FALSE, m |-> m]
NilMap == [k |-> "map", isnil |-> TRUE, m |-> <<>>]
\* a struct with comparable fields, of the named type ty
StructV(ty, m) == [k |-> "struct", ty |-> ty, m |-> m]
\* a pointer, with its address and the value it points to
PtrV(addr, elem) == [k |-> "ptr", isnil |-> FALSE, addr |-> addr, elem |-> elem]
NilPtr == [k |-> "ptr", isnil |-> TRUE, addr |-> 0, elem |-> Nil]
\* a predicate P / func(interface{}) bool, described by f
FuncV(f) == [k |-> "func", isnil |-> FALSE, f |-> f]
NilFunc == [k |-> "func", isnil |-> TRUE, f |-> [op |-> "nil"]]

\* a user-written predicate: true on the values of T, panics on those of X
Custom(T, X) == FuncV([op |-> "custom", T |-> T, X |-> X])

NumericKinds == {"int", "int8", "int16", "int32", "int64",
                 "uint", "uint8", "uint16", "uint32", "uint64",
                 "float32", "float64"}

Min(a, b) == IF a < b THEN a ELSE b

Range(s) == {s[i] : i \in 1..Len(s)}

\* the outcome set of an expression that yields the boolean b
B(b) == IF b THEN {"true"} ELSE {"false"}

---------------------------------------------------------------------------
(* type_utils.go *)

\* A number is written [big, n] and stands for big * 2^53 + n, with big in
\* {0, 1}, n small, and n >= 0 when big = 1.
exact(v) == [big |-> IF "big" \in DOMAIN v THEN v.big ELSE 0, n |-> v.n]

numLess(x, y) == x.big < y.big \/ (x.big = y.big /\ x.n < y.n)

\* float64(2^53 + n): between 2^53 and 2^54 the float64 values are the even
\* integers, and a tie goes to the one with an even mantissa
roundToEven(n) ==
    IF n % 2 = 0 THEN n
    ELSE IF (n + 1) % 4 = 0 THEN n + 1
    ELSE n - 1

\* the conversion float64(val) of a numeric value
float64(v) ==
    IF v.k \in {"float32", "float64"} THEN exact(v)
    ELSE IF exact(v).big = 0 THEN exact(v)
    ELSE [big |-> 1, n |-> roundToEven(v.n)]

\* a conversion that also takes a string, as the number of its bytes
toNumber_lenient(v) ==
    IF v.k \in NumericKinds
    THEN [num |-> float64(v), ok |-> TRUE]
    ELSE IF v.k = "string"
    THEN [num |-> [big |-> 0, n |-> Len(v.s)], ok |-> TRUE]
    ELSE [num |-> [big |-> 0, n |-> 0], ok |-> FALSE]

toNumber(v) ==
    IF v.k \in NumericKinds
    THEN [num |-> float64(v), ok |-> TRUE]
    ELSE [num |-> [big |-> 0, n |-> 0], ok |-> FALSE]

isUncomparable(k) == k \in {"slice", "map", "func"}

\* the test v == nil alone, without the reflective one
isNil_untyped(v) == v.k = "nil"

isNil(v) ==
    \/ v.k = "nil"
    \/ /\ v.k \in {"ptr", "slice", "map", "interface", "chan", "func"}
       /\ v.isnil

RECURSIVE DeepEqual(_, _)
\* reflect.DeepEqual: identical types, then element by element
DeepEqual(a, b) ==
    IF a.k # b.k THEN FALSE
    ELSE CASE a.k = "func" -> a.isnil /\ b.isnil
           [] a.k = "slice" ->
                /\ a.isnil = b.isnil
                /\ Len(a.e) = Len(b.e)
                /\ \A i \in 1..Len(a.e) : DeepEqual(a.e[i], b.e[i])
           [] a.k = "map" ->
                /\ a.isnil = b.isnil
                /\ DOMAIN a.m = DOMAIN b.m
                /\ \A f \in DOMAIN a.m : DeepEqual(a.m[f], b.m[f])
           [] a.k = "struct" ->
                /\ a.ty = b.ty
                /\ \A f \in DOMAIN a.m : DeepEqual(a.m[f], b.m[f])
           [] a.k = "ptr" ->
                /\ a.isnil = b.isnil
                /\ a.addr = b.addr \/ DeepEqual(a.elem, b.elem)
           [] OTHER -> a = b

isEqual(a, b) ==
    IF a.k = "nil" \/ b.k = "nil" THEN a = b
    ELSE LET an == toNumber(a)
             bn == toNumber(b)
         IN  IF an.ok /\ bn.ok THEN an.num = bn.num
             ELSE IF isUncomparable(a.k) \/ isUncomparable(b.k)
                  THEN DeepEqual(a, b)
             ELSE IF a.k = b.k THEN a = b
             ELSE DeepEqual(a, b)

RECURSIVE strLess(_, _)
\* Go's < on strings: bytewise lexicographic
strLess(s, t) ==
    IF t = <<>> THEN FALSE
    ELSE IF s = <<>> THEN TRUE
    ELSE IF Head(s) # Head(t) THEN Head(s) < Head(t)
    ELSE strLess(Tail(s), Tail(t))

threeWay(lt, gt) == IF lt THEN -1 ELSE IF gt THEN 1 ELSE 0

\* an order that places nil after every other value
compareValues_nullLast(a, b) ==
    IF a.k = "nil" /\ b.k = "nil" THEN 0
    ELSE IF a.k = "nil" THEN 1
    ELSE -1

compareValues(a, b) ==
    IF a.k = "nil" /\ b.k = "nil" THEN 0
    ELSE IF a.k = "nil" THEN -1
    ELSE IF b.k = "nil" THEN 1
    ELSE IF a.k = "int" /\ b.k = "int"
         THEN threeWay(numLess(exact(a), exact(b)), numLess(exact(b), exact(a)))
    ELSE IF a.k = "float64" /\ b.k = "float64"
         THEN threeWay(numLess(exact(a), exact(b)), numLess(exact(b), exact(a)))
    ELSE IF a.k = "string" /\ b.k = "string"
         THEN threeWay(strLess(a.s, b.s), strLess(b.s, a.s))
    ELSE IF a.k = "time" /\ b.k = "time" THEN threeWay(a.n < b.n, a.n > b.n)
    ELSE LET an == toNumber(a)
             bn == toNumber(b)
         IN  IF an.ok /\ bn.ok
             THEN threeWay(numLess(an.num, bn.num), numLess(bn.num, an.num))
             ELSE -1

---------------------------------------------------------------------------
(* operators.go: the builders.  Each returns a predicate. *)

Eq(val) == FuncV([op |-> "Eq", arg |-> val])
Gt(threshold) == FuncV([op |-> "Gt", arg |-> threshold])
Lt(threshold) == FuncV([op |-> "Lt", arg |-> threshold])
Gte(threshold) == FuncV([op |-> "Gte", arg |-> threshold])
Lte(threshold) == FuncV([op |-> "Lte", arg |-> threshold])
In(vals) == FuncV([op |-> "In", vals |-> vals])
Or(vals) == FuncV([op |-> "Or", qs |-> vals])
And(predicates) == FuncV([op |-> "And", qs |-> predicates])
Not(p) == FuncV([op |-> "Not", q |-> p])

---------------------------------------------------------------------------
(* The evaluator. *)

getField(it, fieldName) ==
    IF it.k = "nil" THEN Nil
    ELSE LET itemVal == IF it.k = "ptr" THEN it.elem ELSE it
         IN  CASE itemVal.k = "map" ->
                    IF fieldName \in DOMAIN itemVal.m THEN itemVal.m[fieldName] ELSE Nil
               [] itemVal.k = "struct" ->
                    IF fieldName \in DOMAIN itemVal.m THEN itemVal.m[fieldName] ELSE Nil
               [] OTHER -> Nil

\* all orders in which a range over a map with key set S may visit the keys
Orders(S) ==
    {o \in [1..Cardinality(S) -> S] : \A i, j \in DOMAIN o : o[i] = o[j] => i = j}

\* the outcome of the operand, not negated
negate_same(O) == O

negate(O) ==
    {IF o = "true" THEN "false" ELSE IF o = "false" THEN "true" ELSE o : o \in O}

RECURSIVE eval(_, _)
RECURSIVE evalMapQuery(_, _)
RECURSIVE evalMapRange(_, _, _, _)
RECURSIVE callP(_, _)
RECURSIVE andRange(_, _, _)
RECURSIVE orRange(_, _, _)
RECURSIVE andRange_eager(_, _, _)
RECURSIVE orRange_emptyTrue(_, _, _)

\* the loop evaluating every sub-query before it decides
andRange_eager(qs, v, i) ==
    IF i > Len(qs) THEN {"true"}
    ELSE LET O == eval(qs[i], v)
             R == andRange_eager(qs, v, i + 1)
         IN  {IF o = "panic" \/ r = "panic" THEN "panic"
              ELSE IF o = "false" \/ r = "false" THEN "false"
              ELSE "true" : <<o, r>> \in O \X R}

\* the loop of And from its i-th sub-query on
andRange(qs, v, i) ==
    IF i > Len(qs) THEN {"true"}
    ELSE LET O == eval(qs[i], v)
         IN  (O \ {"true"}) \cup (IF "true" \in O THEN andRange(qs, v, i + 1) ELSE {})

\* the loop returning true when no sub-query is left
orRange_emptyTrue(qs, v, i) ==
    IF i > Len(qs) THEN {"true"}
    ELSE LET O == eval(qs[i], v)
         IN  (O \ {"false"}) \cup (IF "false" \in O THEN orRange_emptyTrue(qs, v, i + 1) ELSE {})

\* the loop of Or from its i-th sub-query on
orRange(qs, v, i) ==
    IF i > Len(qs) THEN {"false"}
    ELSE LET O == eval(qs[i], v)
         IN  (O \ {"false"}) \cup (IF "false" \in O THEN orRange(qs, v, i + 1) ELSE {})

\* q(value) for a predicate q
callP(q, v) ==
    IF q.isnil THEN {"panic"}
    ELSE CASE q.f.op = "custom" ->
                IF v \in q.f.X THEN {"panic"} ELSE B(v \in q.f.T)
           [] q.f.op = "Eq" -> B(isEqual(v, q.f.arg))
           [] q.f.op = "Gt" -> B(compareValues(v, q.f.arg) > 0)
           [] q.f.op = "Lt" -> B(compareValues(v, q.f.arg) < 0)
           [] q.f.op = "Gte" -> B(compareValues(v, q.f.arg) >= 0)
           [] q.f.op = "Lte" -> B(compareValues(v, q.f.arg) <= 0)
           [] q.f.op = "In" ->
                B(\E i \in 1..Len(q.f.vals) : DeepEqual(v, q.f.vals[i]))
           [] q.f.op = "Or" -> orRange(q.f.qs, v, 1)
           [] q.f.op = "And" -> andRange(q.f.qs, v, 1)
           [] q.f.op = "Not" -> negate(eval(q.f.q, v))

\* the loop returning the outcome of the first entry it visits
evalMapRange_firstOnly(it, q, ord, i) ==
    IF i > Len(ord) THEN {"true"}
    ELSE LET key == ord[i]
             value == IF key = "" THEN it ELSE getField(it, key)
         IN  eval(q.m[key], value)

\* the loop of evalMapQuery visiting the keys in the order ord, from the i-th on
evalMapRange(it, q, ord, i) ==
    IF i > Len(ord) THEN {"true"}
    ELSE LET key == ord[i]
             value == IF key = "" THEN it ELSE getField(it, key)
             O == eval(q.m[key], value)
         IN  (O \ {"true"})
                \cup (IF "true" \in O THEN evalMapRange(it, q, ord, i + 1) ELSE {})

evalMapQuery(it, q) ==
    UNION {evalMapRange(it, q, ord, 1) : ord \in Orders(DOMAIN q.m)}

\* the evaluator comparing a literal with Go's == alone
eval_strict(q, value) ==
    CASE q.k = "func" -> callP(q, value)
      [] q.k = "map" -> evalMapQuery(value, q)
      [] q.k = "nil" -> B(isNil(value))
      [] OTHER -> B(value = q)

eval(q, value) ==
    CASE q.k = "func" -> callP(q, value)
      [] q.k = "map" -> evalMapQuery(value, q)
      [] q.k = "nil" -> B(isNil(value))
      [] OTHER -> B(isEqual(value, q))

---------------------------------------------------------------------------
(* Filter: the bulk entry point.  An item is named by its position in data, *)
(* so a result is a sequence of positions.  A return is the record          *)
(* [result, err, outs], outs being the outcomes of the calls of eval made,  *)
(* in order.                                                                *)

\* if count < skip: the match is one of the first skip matches
skipping_offByOne(count, sk) == count <= sk
skipping(count, sk) == count < sk

\* if limit > 0 && len(result) >= limit: the result is full
limitReached(lim, n) == lim > 0 /\ n >= lim

\* the deferred recover: err is set, the named result keeps what it holds
recovered_lost(result, hist) == [result |-> <<>>, err |-> TRUE, outs |-> hist]
recovered(result, hist) == [result |-> result, err |-> TRUE, outs |-> hist]

RECURSIVE FilterLoop(_, _, _, _, _, _, _, _)
\* the for loop from position i on, with the counter, the result and the history so far
FilterLoop(d, q, sk, lim, i, count, result, hist) ==
    IF i > Len(d) THEN {[result |-> result, err |-> FALSE, outs |-> hist]}
    ELSE UNION {
        CASE o = "panic" ->
                {recovered(result, Append(hist, o))}
          [] o = "false" ->
                FilterLoop(d, q, sk, lim, i + 1, count, result, Append(hist, o))
          [] o = "true" ->
                IF skipping(count, sk)
                THEN FilterLoop(d, q, sk, lim, i + 1, count + 1, result, Append(hist, o))
                ELSE LET r2 == Append(result, i)
                     IN  IF limitReached(lim, Len(r2))
                         THEN {[result |-> r2, err |-> FALSE, outs |-> Append(hist, o)]}
                         ELSE FilterLoop(d, q, sk, lim, i + 1, count, r2, Append(hist, o))
        : o \in eval(q, d[i])}

\* data[lo:hi] as the positions lo+1 .. hi
SliceExpr(lo, hi) == [j \in 1..(hi - lo) |-> lo + j]

Filter(d, q, sk, lim) ==
    IF q.k = "nil"
    THEN IF sk = 0 /\ (lim = 0 \/ lim >= Len(d))
         THEN {[result |-> SliceExpr(0, Len(d)), err |-> FALSE, outs |-> <<>>]}
         ELSE {[result |-> SliceExpr(Min(sk, Len(d)), Min(sk + lim, Len(d))),
                err |-> FALSE, outs |-> <<>>]}
    ELSE FilterLoop(d, q, sk, lim, 1, 0, <<>>, <<>>)

\* a call that leaves the caller's query cleared
FilterCall_clearsQuery ==
    /\ fpc = "idle"
    /\ \E r \in Filter(data, query, skip, limit) :
          /\ fresult' = r.result
          /\ ferr' = r.err
          /\ fouts' = r.outs
    /\ fpc' = "returned"
    /\ query' = Nil
    /\ UNCHANGED <<data, skip, limit, streamVars, evalVars, sourceVars, cliVars>>

FilterCall ==
    /\ fpc = "idle"
    /\ \E r \in Filter(data, query, skip, limit) :
          /\ fresult' = r.result
          /\ ferr' = r.err
          /\ fouts' = r.outs
    /\ fpc' = "returned"
    /\ UNCHANGED <<argVars, streamVars, evalVars, sourceVars, cliVars>>

---------------------------------------------------------------------------
(* The input channel of FilterC.  Its producer delivers data in order and  *)
(* then closes the channel; the items produced and not yet received are in *)
(* the channel.                                                            *)

Produce ==
    /\ ~inputClosed
    /\ produced < Len(data)
    /\ produced' = produced + 1
    /\ UNCHANGED <<argVars, bulkVars, evalVars, sourceVars, cliVars, inputClosed, pc, item, matched, sent,
                   received, outs, results, errors, outClosed, errClosed>>

CloseInput ==
    /\ ~inputClosed
    /\ produced = Len(data)
    /\ inputClosed' = TRUE
    /\ UNCHANGED <<argVars, bulkVars, evalVars, sourceVars, cliVars, produced, pc, item, matched, sent,
                   received, outs, results, errors, outClosed, errClosed>>

---------------------------------------------------------------------------
(* FilterC: the goroutine.  pc is its position:                             *)
(*   "range"    at  for item := range input                                 *)
(*   "eval"     at  matches = eval(query, item)                             *)
(*   "sendErr"  at  errCh <- fmt.Errorf(...)   in the recover handler       *)
(*   "sendOut"  at  output <- item                                          *)
(*   "closeErr" at  the deferred close(errCh)                               *)
(*   "closeOut" at  the deferred close(output)                              *)
(*   "done"     after the goroutine has returned                            *)
(* output and errCh are unbuffered: a send completes together with the      *)
(* consumer's receive, which appends to results or errors.                  *)

Receive_peek ==
    /\ pc = "range"
    /\ received < produced
    /\ item' = received + 1
    /\ pc' = "eval"
    /\ UNCHANGED <<argVars, bulkVars, evalVars, sourceVars, cliVars, produced, inputClosed, matched, sent,
                   received, outs, results, errors, outClosed, errClosed>>

Receive ==
    /\ pc = "range"
    /\ received < produced
    /\ item' = received + 1
    /\ received' = received + 1
    /\ pc' = "eval"
    /\ UNCHANGED <<argVars, bulkVars, evalVars, sourceVars, cliVars, produced, inputClosed, matched, sent,
                   outs, results, errors, outClosed, errClosed>>

InputEnd ==
    /\ pc = "range"
    /\ received = produced
    /\ inputClosed
    /\ pc' = "closeErr"
    /\ UNCHANGED <<argVars, bulkVars, evalVars, sourceVars, cliVars, produced, inputClosed, item, matched,
                   sent, received, outs, results, errors, outClosed, errClosed>>

AfterMatch_offByOne(m) ==
    IF m < skip THEN "range"
    ELSE IF limit > 0 /\ sent >= limit THEN "closeErr"
    ELSE "sendOut"

\* where the goroutine goes after eval returned true
AfterMatch(m) ==
    IF m <= skip THEN "range"
    ELSE IF limit > 0 /\ sent >= limit THEN "closeErr"
    ELSE "sendOut"

Evaluate ==
    /\ pc = "eval"
    /\ \E o \in eval(query, data[item]) :
          /\ outs' = Append(outs, o)
          /\ CASE o = "panic" -> pc' = "sendErr" /\ matched' = matched
               [] o = "false" -> pc' = "range" /\ matched' = matched
               [] o = "true" -> matched' = matched + 1 /\ pc' = AfterMatch(matched + 1)
    /\ UNCHANGED <<argVars, bulkVars, evalVars, sourceVars, cliVars, produced, inputClosed, item, sent,
                   received, results, errors, outClosed, errClosed>>

\* the send on a buffered errCh: it completes without a reader
SendErr_buffered ==
    /\ pc = "sendErr"
    /\ pc' = "range"
    /\ UNCHANGED <<argVars, bulkVars, evalVars, sourceVars, cliVars, produced, inputClosed, item, matched,
                   sent, received, outs, results, errors, outClosed, errClosed>>

SendErr_stops ==
    /\ pc = "sendErr"
    /\ errors' = Append(errors, item)
    /\ pc' = "closeErr"
    /\ UNCHANGED <<argVars, bulkVars, evalVars, sourceVars, cliVars, produced, inputClosed, item, matched,
                   sent, received, outs, results, outClosed, errClosed>>

SendErr ==
    /\ pc = "sendErr"
    /\ errors' = Append(errors, item)
    /\ pc' = "range"
    /\ UNCHANGED <<argVars, bulkVars, evalVars, sourceVars, cliVars, produced, inputClosed, item, matched,
                   sent, received, outs, results, outClosed, errClosed>>

\* the send that leaves sent as it was
SendOutput_uncounted ==
    /\ pc = "sendOut"
    /\ results' = Append(results, item)
    /\ pc' = "range"
    /\ UNCHANGED <<argVars, bulkVars, evalVars, sourceVars, cliVars, produced, inputClosed, item, matched,
                   sent, received, outs, errors, outClosed, errClosed>>

SendOutput ==
    /\ pc = "sendOut"
    /\ results' = Append(results, item)
    /\ sent' = sent + 1
    /\ pc' = "range"
    /\ UNCHANGED <<argVars, bulkVars, evalVars, sourceVars, cliVars, produced, inputClosed, item, matched,
                   received, outs, errors, outClosed, errClosed>>

CloseErr ==
    /\ pc = "closeErr"
    /\ errClosed' = TRUE
    /\ pc' = "closeOut"
    /\ UNCHANGED <<argVars, bulkVars, evalVars, sourceVars, cliVars, produced, inputClosed, item, matched,
                   sent, received, outs, results, errors, outClosed>>

CloseOut_leak ==
    /\ pc = "closeOut"
    /\ pc' = "done"
    /\ UNCHANGED <<argVars, bulkVars, evalVars, sourceVars, cliVars, produced, inputClosed, item, matched,
                   sent, received, outs, results, errors, outClosed, errClosed>>

CloseOut ==
    /\ pc = "closeOut"
    /\ outClosed' = TRUE
    /\ pc' = "done"
    /\ UNCHANGED <<argVars, bulkVars, evalVars, sourceVars, cliVars, produced, inputClosed, item, matched,
                   sent, received, outs, results, errors, errClosed>>

---------------------------------------------------------------------------
(* The inputs of the filter specification. *)

R1 == MapV("a" :> IntV(1))
R2 == MapV("a" :> IntV(2))
Records == {R1, R2, Nil}

\* a predicate that holds of R1 and panics on R2
Faulty == Custom({R1}, {R2})

Queries ==
    {Nil,
     MapV("a" :> IntV(1)),
     Faulty,
     MapV(("a" :> IntV(1)) @@ ("" :> Faulty))}

SeqsUpTo(S, n) == UNION {[1..m -> S] : m \in 0..n}

---------------------------------------------------------------------------
(* sources.go: JSONLFileSourceStream.  A line of the file is its text with  *)
(* a flag for surrounding white space; the text is nothing, something that  *)
(* is not JSON, or a JSON document.                                         *)

\* capacity of output: make(chan interface{}, 100)
OutputCap == 100
\* capacity of errCh: make(chan error, 10)
ErrChCap == 10

JEmpty == [j |-> "empty"]
JInvalid == [j |-> "invalid"]
JNull == [j |-> "null"]
JNumber(n) == [j |-> "number", n |-> n]
JString(str) == [j |-> "string", s |-> str]
JArray(e) == [j |-> "array", e |-> e]
JObject(m) == [j |-> "object", m |-> m]

Line(ws, text) == [ws |-> ws, text |-> text]

\* strings.TrimSpace(line)
TrimSpace(line) == line.text

RECURSIVE decode(_)
\* the value json.Unmarshal stores in an interface{}
decode(doc) ==
    CASE doc.j = "null" -> Nil
      [] doc.j = "number" -> Float64V(doc.n)
      [] doc.j = "string" -> StrV(doc.s)
      [] doc.j = "array" -> SliceV([i \in DOMAIN doc.e |-> decode(doc.e[i])])
      [] doc.j = "object" -> MapV([f \in DOMAIN doc.m |-> decode(doc.m[f])])

\* json.Unmarshal([]byte(line), &obj)
Unmarshal(text) ==
    IF text.j \in {"empty", "invalid"}
    THEN [err |-> TRUE, obj |-> Nil]
    ELSE [err |-> FALSE, obj |-> decode(text)]

\* the three errors of the source
OpenError == [kind |-> "open", line |-> 0]
ParseError(n) == [kind |-> "parse", line |-> n]
ReadError == [kind |-> "read", line |-> 0]

\* no file source is running
SourceIdle ==
    /\ file = <<>>
    /\ opened = FALSE
    /\ spc = "idle"
    /\ lineNum = 0
    /\ srcOutput = <<>>
    /\ srcErrCh = <<>>
    /\ srcOutputClosed = FALSE
    /\ srcErrChClosed = FALSE
    /\ gotObjs = <<>>
    /\ gotErrs = <<>>

\* no command line is running
CLIIdle ==
    /\ filters = <<>>
    /\ epc = "idle"
    /\ pending = OpenError
    /\ srcErrNil = FALSE
    /\ filterErrNil = FALSE
    /\ errorCh = <<>>
    /\ done = FALSE
    /\ mpc = "idle"
    /\ outputErr = FALSE
    /\ processErr = "none"

\* errCh <- fmt.Errorf("failed to open file: %w", err)
OpenFailSendErr ==
    /\ spc = "openErr"
    /\ Len(srcErrCh) < ErrChCap
    /\ srcErrCh' = Append(srcErrCh, OpenError)
    /\ spc' = "openCloseErrCh"
    /\ UNCHANGED <<argVars, streamVars, bulkVars, evalVars, cliVars, file, opened, lineNum,
                   srcOutput, srcOutputClosed, srcErrChClosed, gotObjs, gotErrs>>

\* close(errCh) after a failed open
OpenFailCloseErrCh ==
    /\ spc = "openCloseErrCh"
    /\ srcErrChClosed' = TRUE
    /\ spc' = "openCloseOutput"
    /\ UNCHANGED <<argVars, streamVars, bulkVars, evalVars, cliVars, file, opened, lineNum,
                   srcOutput, srcErrCh, srcOutputClosed, gotObjs, gotErrs>>

\* the goroutine ending with output left open
OpenFailCloseOutput_leak ==
    /\ spc = "openCloseOutput"
    /\ spc' = "done"
    /\ UNCHANGED <<argVars, streamVars, bulkVars, evalVars, cliVars, file, opened, lineNum,
                   srcOutput, srcErrCh, srcOutputClosed, srcErrChClosed, gotObjs,
                   gotErrs>>

\* close(output) after a failed open
OpenFailCloseOutput ==
    /\ spc = "openCloseOutput"
    /\ srcOutputClosed' = TRUE
    /\ spc' = "done"
    /\ UNCHANGED <<argVars, streamVars, bulkVars, evalVars, cliVars, file, opened, lineNum,
                   srcOutput, srcErrCh, srcErrChClosed, gotObjs, gotErrs>>

\* scanner.Scan() returns a line: lineNum++, the blank test and json.Unmarshal
SrcScan ==
    /\ spc = "scan"
    /\ lineNum < Len(file)
    /\ lineNum' = lineNum + 1
    /\ LET line == file[lineNum + 1]
       IN  spc' = IF TrimSpace(line) = JEmpty THEN "scan"
                  ELSE IF Unmarshal(line.text).err THEN "sendParseErr"
                  ELSE "sendObj"
    /\ UNCHANGED <<argVars, streamVars, bulkVars, evalVars, cliVars, file, opened, srcOutput,
                   srcErrCh, srcOutputClosed, srcErrChClosed, gotObjs, gotErrs>>

\* scanner.Scan() returns false at the end of the file, scanner.Err() is nil
SrcEOF ==
    /\ spc = "scan"
    /\ lineNum = Len(file)
    /\ spc' = "closeErrCh"
    /\ UNCHANGED <<argVars, streamVars, bulkVars, evalVars, cliVars, file, opened, lineNum,
                   srcOutput, srcErrCh, srcOutputClosed, srcErrChClosed, gotObjs,
                   gotErrs>>

\* scanner.Scan() returns false on a failed read or a line longer than the
\* scanner's buffer; scanner.Err() is not nil
SrcReadFail ==
    /\ spc = "scan"
    /\ spc' = "sendReadErr"
    /\ UNCHANGED <<argVars, streamVars, bulkVars, evalVars, cliVars, file, opened, lineNum,
                   srcOutput, srcErrCh, srcOutputClosed, srcErrChClosed, gotObjs,
                   gotErrs>>

\* the malformed line ending the scan
SrcSendParseErr_fatal ==
    /\ spc = "sendParseErr"
    /\ Len(srcErrCh) < ErrChCap
    /\ srcErrCh' = Append(srcErrCh, ParseError(lineNum))
    /\ spc' = "closeErrCh"
    /\ UNCHANGED <<argVars, streamVars, bulkVars, evalVars, cliVars, file, opened, lineNum,
                   srcOutput, srcOutputClosed, srcErrChClosed, gotObjs, gotErrs>>

\* errCh <- fmt.Errorf("line %d: error parsing JSON: %w", lineNum, err); continue
SrcSendParseErr ==
    /\ spc = "sendParseErr"
    /\ Len(srcErrCh) < ErrChCap
    /\ srcErrCh' = Append(srcErrCh, ParseError(lineNum))
    /\ spc' = "scan"
    /\ UNCHANGED <<argVars, streamVars, bulkVars, evalVars, cliVars, file, opened, lineNum,
                   srcOutput, srcOutputClosed, srcErrChClosed, gotObjs, gotErrs>>

\* output <- obj
SrcSendObj ==
    /\ spc = "sendObj"
    /\ Len(srcOutput) < OutputCap
    /\ srcOutput' = Append(srcOutput,
                       [line |-> lineNum, obj |-> Unmarshal(file[lineNum].text).obj])
    /\ spc' = "scan"
    /\ UNCHANGED <<argVars, streamVars, bulkVars, evalVars, cliVars, file, opened, lineNum,
                   srcErrCh, srcOutputClosed, srcErrChClosed, gotObjs, gotErrs>>

\* errCh <- fmt.Errorf("error reading file: %w", err)
SrcSendReadErr ==
    /\ spc = "sendReadErr"
    /\ Len(srcErrCh) < ErrChCap
    /\ srcErrCh' = Append(srcErrCh, ReadError)
    /\ spc' = "closeErrCh"
    /\ UNCHANGED <<argVars, streamVars, bulkVars, evalVars, cliVars, file, opened, lineNum,
                   srcOutput, srcOutputClosed, srcErrChClosed, gotObjs, gotErrs>>

\* defer close(errCh): the last deferred call runs first
SrcCloseErrCh ==
    /\ spc = "closeErrCh"
    /\ srcErrChClosed' = TRUE
    /\ spc' = "closeOutput"
    /\ UNCHANGED <<argVars, streamVars, bulkVars, evalVars, cliVars, file, opened, lineNum,
                   srcOutput, srcErrCh, srcOutputClosed, gotObjs, gotErrs>>

\* defer close(output)
SrcCloseOutput ==
    /\ spc = "closeOutput"
    /\ srcOutputClosed' = TRUE
    /\ spc' = "done"
    /\ UNCHANGED <<argVars, streamVars, bulkVars, evalVars, cliVars, file, opened, lineNum,
                   srcOutput, srcErrCh, srcErrChClosed, gotObjs, gotErrs>>

\* the reader of output receives a value
RecvObj ==
    /\ srcOutput # <<>>
    /\ gotObjs' = Append(gotObjs, Head(srcOutput))
    /\ srcOutput' = Tail(srcOutput)
    /\ UNCHANGED <<argVars, streamVars, bulkVars, evalVars, cliVars, file, opened, spc, lineNum,
                   srcErrCh, srcOutputClosed, srcErrChClosed, gotErrs>>

\* the reader of errCh receives an error
RecvErr ==
    /\ srcErrCh # <<>>
    /\ gotErrs' = Append(gotErrs, Head(srcErrCh))
    /\ srcErrCh' = Tail(srcErrCh)
    /\ UNCHANGED <<argVars, streamVars, bulkVars, evalVars, cliVars, file, opened, spc, lineNum,
                   srcOutput, srcOutputClosed, srcErrChClosed, gotObjs>>

Init ==
    /\ data \in SeqsUpTo(Records, MaxLen)
    /\ query \in Queries
    /\ skip \in 0..MaxPage
    /\ limit \in 0..MaxPage
    /\ produced = 0
    /\ inputClosed = FALSE
    /\ pc = "range"
    /\ item = 0
    /\ matched = 0
    /\ sent = 0
    /\ received = 0
    /\ outs = <<>>
    /\ results = <<>>
    /\ errors = <<>>
    /\ outClosed = FALSE
    /\ errClosed = FALSE
    /\ fpc = "idle"
    /\ fresult = <<>>
    /\ ferr = FALSE
    /\ fouts = <<>>
    /\ evQuery = Nil
    /\ evValue = Nil
    /\ evOut = "none"
    /\ SourceIdle
    /\ CLIIdle

\* the steps of one FilterC pipeline: producer, goroutine and consumers
StreamNext ==
    \/ Produce
    \/ CloseInput
    \/ Receive
    \/ InputEnd
    \/ Evaluate
    \/ SendErr
    \/ SendOutput
    \/ CloseErr
    \/ CloseOut

Next ==
    \/ FilterCall
    \/ StreamNext

Spec == Init /\ [][Next]_vars

\* The goroutine of FilterC is scheduled whenever it can take a step, the
\* producer delivers its items and closes the input, and both consumers keep
\* receiving (SendErr and SendOutput complete with the consumer's receive).
FairSpec ==
    /\ Init
    /\ [][StreamNext]_vars
    /\ WF_vars(Produce)
    /\ WF_vars(CloseInput)
    /\ WF_vars(Receive)
    /\ WF_vars(InputEnd)
    /\ WF_vars(Evaluate)
    /\ WF_vars(SendErr)
    /\ WF_vars(SendOutput)
    /\ WF_vars(CloseErr)
    /\ WF_vars(CloseOut)

---------------------------------------------------------------------------
(* Vocabulary of the properties. *)

Positions(n) == [i \in 1..n |-> i]

\* the positions of h holding the outcome o, in increasing order
PosOf(h, o) == SelectSeq(Positions(Len(h)), LAMBDA i : h[i] = o)

\* the positions of the records of d that the query q matches
Matching(d, q) == SelectSeq(Positions(Len(d)), LAMBDA i : "true" \in eval(q, d[i]))

\* ms without its first sk elements, cut to lim elements when lim > 0
Paginate(ms, sk, lim) ==
    SubSeq(ms, sk + 1, IF lim > 0 THEN Min(sk + lim, Len(ms)) ELSE Len(ms))

Increasing(s) == \A i, j \in 1..Len(s) : i < j => s[i] < s[j]

\* the outcomes whose handling the goroutine has completed
Handled == IF pc \in {"sendErr", "sendOut"} THEN SubSeq(outs, 1, Len(outs) - 1) ELSE outs

\* the number of matches among the first p outcomes of h
Rank(h, p) == Cardinality({j \in 1..p : h[j] = "true"})

Stopped == pc \in {"closeErr", "closeOut", "done"}

---------------------------------------------------------------------------
(* Properties of the filter specification Spec. *)

C2_BulkFaultPartial ==
    (fpc = "returned" /\ query.k # "nil") =>
        LET n == Len(fouts)
        IN  /\ \A i \in 1..n : fouts[i] \in eval(query, data[i])
            /\ ferr <=> (\E i \in 1..n : fouts[i] = "panic")
            /\ ferr =>
                 /\ fouts[n] = "panic"
                 /\ \A i \in 1..(n - 1) : fouts[i] # "panic"
                 /\ fresult = Paginate(PosOf(SubSeq(fouts, 1, n - 1), "true"), skip, limit)

C2_Witness ==
    /\ fpc = "returned"
    /\ ferr
    /\ fresult # <<>>
    /\ Len(fouts) < Len(data)

\* C3: for a non-nil query, a call of Filter that meets no panic returns, in the
\* original order, the matching records without the first skip of them, cut to
\* limit of them when limit > 0; and it evaluates no record after the one that
\* fills the limit.
C3_BulkPagination ==
    (fpc = "returned" /\ query.k # "nil" /\ ~ferr) =>
        /\ fresult = Paginate(Matching(data, query), skip, limit)
        /\ Increasing(fresult)
        /\ IF limit > 0 /\ Len(fresult) = limit
           THEN Len(fouts) = fresult[limit]
           ELSE Len(fouts) = Len(data)

C3_Witness ==
    /\ fpc = "returned"
    /\ ~ferr
    /\ query.k # "nil"
    /\ skip = 1
    /\ limit = 1
    /\ Len(fresult) = 1
    /\ Len(fouts) < Len(data)

\* C4: on an input delivered in full and then closed, with a non-nil query and
\* no panic in either run, FilterC emits exactly what Filter returns for the same
\* records, query, skip and limit.
C4_StreamEqualsBulk ==
    ( /\ pc = "done"
      /\ inputClosed
      /\ fpc = "returned"
      /\ query.k # "nil"
      /\ errors = <<>>
      /\ ~ferr )
    => results = fresult

C4_Witness ==
    /\ pc = "done"
    /\ inputClosed
    /\ fpc = "returned"
    /\ query.k # "nil"
    /\ errors = <<>>
    /\ ~ferr
    /\ skip > 0
    /\ limit > 0
    /\ results = fresult
    /\ Len(results) = limit
    /\ Len(fouts) < Len(outs)

\* C5: the items FilterC has emitted are a subsequence of the items it has
\* received: each was received, none is emitted twice, and they are in input order.
C5_OutputSubsequence ==
    /\ Increasing(results)
    /\ Range(results) \subseteq 1..received

C5_Witness ==
    /\ Len(results) >= 2
    /\ results[2] > results[1] + 1

\* C6: with a nil query FilterC passes every input record through, subject only
\* to skip and limit.
C6_NilQueryPassesAll ==
    (query.k = "nil" /\ pc = "done" /\ inputClosed)
    => results = Paginate(Positions(Len(data)), skip, limit)

\* C7: with a nil query Filter returns the records from min(skip, len) up to
\* min(skip + limit, len), the upper end being len when limit = 0, and evaluates
\* nothing.
C7_NilQueryBulkRange ==
    (query.k = "nil" /\ fpc = "returned") =>
        LET n == Len(data)
            lo == Min(skip, n)
            hi == IF limit = 0 THEN n ELSE Min(skip + limit, n)
        IN  /\ fresult = [j \in 1..(hi - lo) |-> lo + j]
            /\ ~ferr
            /\ fouts = <<>>

\* C8: with limit > 0, once the limit-th match has been emitted FilterC receives
\* no further input item: the last item it received is the last it emitted.
C8_StopsAtLimit ==
    (limit > 0 /\ sent >= limit) => received = results[Len(results)]

---------------------------------------------------------------------------
(* Property of the fair specification FairSpec. *)

\* C9: when the input delivers its items and is closed and both consumers keep
\* receiving, FilterC eventually closes its output and its error channel,
\* whatever the query, skip and limit, with or without panics.
C9_EventuallyClosed == <>(outClosed /\ errClosed)

C9_Witness ==
    /\ outClosed
    /\ errClosed
    /\ errors # <<>>
    /\ results # <<>>
    /\ received = Len(data)

---------------------------------------------------------------------------
(* The evaluator specification: one call of eval on a query and a value     *)
(* drawn from the sets below.                                               *)

\* a predicate that holds of 1 and of R1 and panics on 2 and on R2
FaultyAt2 == Custom({IntV(1), R1}, {IntV(2), R2})

SubQueries ==
    {Nil, IntV(1), StrV(<<1>>), Gt(IntV(1)), FaultyAt2, MapV("x" :> IntV(1))}

FieldMaps ==
    UNION {{MapV(m) : m \in [K -> SubQueries]} : K \in SUBSET {"", "a", "c"}}

\* the literals of the equality, nil and coercion tests
Literals ==
    {IntV(0), IntV(1), IntV(2), Float64V(1), Float64V(3),
     NumV("int8", 3), NumV("uint64", 3),
     BigV("int", 0), BigV("int", 1), BigV("int64", 0), BigV("int64", 1),
     StrV(<<>>), StrV(<<1>>), StrV(<<2>>), BoolV(TRUE), BoolV(FALSE), TimeV(1),
     SliceV(<<>>), SliceV(<<IntV(1)>>), NilSlice,
     StructV("T", "a" :> IntV(2))}

\* the sub-queries given to And, Or and Not: one of each variant of Query
Args == {Nil, IntV(1), Gt(IntV(1)), FaultyAt2, MapV("a" :> IntV(1))}

Combined ==
    UNION {{And(qs), Or(qs)} : qs \in SeqsUpTo(Args, MaxArgs)}

Nested ==
    {And(<<Or(<<IntV(1), IntV(2)>>), Not(IntV(2))>>),
     Or(<<And(<<IntV(1), FaultyAt2>>), Not(Nil)>>),
     And(<<Or(<<>>), FaultyAt2>>),
     Or(<<And(<<>>), FaultyAt2>>)}

Negated ==
    UNION {{Not(q), Not(Not(q))} : q \in Args \cup {And(<<>>), Or(<<IntV(1), FaultyAt2>>)}}

\* the arguments given to Eq, Gt, Lt, Gte and Lte
Thresholds ==
    {Nil, IntV(1), Float64V(1), BigV("int", 1), StrV(<<1>>), BoolV(TRUE),
     SliceV(<<IntV(1)>>), TimeV(1)}

Comparisons ==
    UNION {{Eq(x), Gt(x), Lt(x), Gte(x), Lte(x)} : x \in Thresholds}

\* an ordering operator on a field the records may lack
FieldComparisons ==
    {MapV("c" :> p) : p \in {Gt(IntV(1)), Lt(IntV(1)), Gte(IntV(1)), Lte(IntV(1))}}

\* In over literals of several kinds
Memberships ==
    {In(xs) : xs \in SeqsUpTo({IntV(1), Float64V(1), NumV("uint64", 3), StrV(<<1>>)},
                              MaxArgs)}

EvalQueries ==
    FieldMaps \cup {Nil, NilMap} \cup Literals \cup Combined \cup Nested \cup Negated
        \cup Comparisons \cup FieldComparisons \cup Memberships

EvalValues ==
    Literals \cup
    {Nil, NilMap, NilFunc, MapV(<<>>), R1, R2,
     MapV(("a" :> Float64V(1)) @@ ("c" :> StrV(<<1>>))),
     MapV("a" :> MapV("x" :> IntV(1))),
     MapV(("a" :> IntV(2)) @@ ("c" :> Nil)),
     MapV(("a" :> IntV(0)) @@ ("c" :> NilSlice)),
     MapV(("a" :> StrV(<<>>)) @@ ("c" :> SliceV(<<>>))),
     StructV("T", ("a" :> IntV(1)) @@ ("c" :> StrV(<<1>>))),
     PtrV(1, StructV("T", "a" :> IntV(2))),
     NilPtr}

InitEval ==
    /\ evQuery \in EvalQueries
    /\ evValue \in EvalValues
    /\ evOut = "none"
    /\ data = <<>>
    /\ query = Nil
    /\ skip = 0
    /\ limit = 0
    /\ produced = 0
    /\ inputClosed = FALSE
    /\ pc = "range"
    /\ item = 0
    /\ matched = 0
    /\ sent = 0
    /\ received = 0
    /\ outs = <<>>
    /\ results = <<>>
    /\ errors = <<>>
    /\ outClosed = FALSE
    /\ errClosed = FALSE
    /\ fpc = "idle"
    /\ fresult = <<>>
    /\ ferr = FALSE
    /\ fouts = <<>>
    /\ SourceIdle
    /\ CLIIdle

EvalCall ==
    /\ evOut = "none"
    /\ evOut' \in eval(evQuery, evValue)
    /\ UNCHANGED <<evQuery, evValue, argVars, streamVars, bulkVars, sourceVars,
                   cliVars>>

SpecEval == InitEval /\ [][EvalCall]_vars

\* the outcomes of the entry key of the field map q on the value v
EntryOutcomes(q, v, key) ==
    eval(q.m[key], IF key = "" THEN v ELSE getField(v, key))

HasField(v, key) ==
    LET c == IF v.k = "ptr" THEN v.elem ELSE v
    IN  c.k \in {"map", "struct"} /\ key \in DOMAIN c.m

---------------------------------------------------------------------------
(* Properties of the evaluator specification SpecEval. *)

\* C10: a field map evaluates to true iff every entry's sub-query evaluates to
\* true on the entry's field value, the whole value for the key "" and the
\* result of getField otherwise; the empty field map matches every value; a
\* field map naming a field the value lacks with a non-nil literal never matches.
C10_FieldMapConjunction ==
    (evOut # "none" /\ evQuery.k = "map") =>
        LET keys == DOMAIN evQuery.m
        IN  /\ evOut = "true" <=>
                  \A key \in keys : EntryOutcomes(evQuery, evValue, key) = {"true"}
            /\ evOut = "false" =>
                  \E key \in keys : "false" \in EntryOutcomes(evQuery, evValue, key)
            /\ evOut = "panic" =>
                  \E key \in keys : "panic" \in EntryOutcomes(evQuery, evValue, key)
            /\ keys = {} => evOut = "true"
            /\ (\E key \in keys \ {""} :
                  /\ ~HasField(evValue, key)
                  /\ evQuery.m[key].k \notin {"nil", "func", "map"})
               => evOut # "true"

C10_Witness ==
    /\ evOut = "true"
    /\ evQuery.k = "map"
    /\ DOMAIN evQuery.m = {"", "a"}
    /\ evQuery.m[""].k = "func"
    /\ evValue = R1

\* a query that is neither nil, nor a predicate, nor a field map
IsLiteral(q) == q.k \notin {"nil", "func", "map"}

Nullish == {Nil, NilSlice, NilMap, NilPtr, NilFunc}

\* C12: eval(nil, v) is true exactly when v is nil or a nil slice, map,
\* pointer or function, and so on a field the record lacks; it is false for
\* 0, for "" and for an empty non-nil slice.
C12_NilMatchesNullish ==
    evOut # "none" =>
        /\ evQuery = Nil =>
              /\ evOut \in {"true", "false"}
              /\ evOut = "true" <=> evValue \in Nullish
              /\ evValue \in {IntV(0), StrV(<<>>), SliceV(<<>>), MapV(<<>>)}
                    => evOut = "false"
        /\ evQuery = MapV("c" :> Nil) =>
              /\ ~HasField(evValue, "c") => evOut = "true"
              /\ HasField(evValue, "c") =>
                    (evOut = "true" <=>
                        (IF evValue.k = "ptr" THEN evValue.elem ELSE evValue).m["c"]
                            \in Nullish)

C12_Witness ==
    /\ evOut = "true"
    /\ evQuery = Nil
    /\ evValue = NilSlice

\* C13: equality compares numbers by numeric value, whatever their kind,
\* width or signedness (3 equals 3.0, int8(3) equals uint64(3)), and a string
\* never equals a number.
C13_NumericEquality ==
    (evOut # "none" /\ IsLiteral(evQuery)) =>
        /\ (evQuery.k \in NumericKinds /\ evValue.k \in NumericKinds) =>
              (evOut = "true" <=> exact(evValue) = exact(evQuery))
        /\ (evQuery = Float64V(3) /\ evValue = NumV("int8", 3)) => evOut = "true"
        /\ (evQuery = NumV("uint64", 3) /\ evValue = NumV("int8", 3)) => evOut = "true"
        /\ (evQuery.k = "string" /\ evValue.k \in NumericKinds) => evOut = "false"
        /\ (evQuery.k \in NumericKinds /\ evValue.k = "string") => evOut = "false"

\* the query is the predicate built by the operator op
IsOp(q, op) == q.k = "func" /\ ~q.isnil /\ q.f.op = op

\* the i-th sub-query evaluates to the outcome o
SubIs(qs, v, i, o) == eval(qs[i], v) = {o}

\* the statement of C14 as it was made: Or is true iff some sub-query is true
C14_OrIffSomeTrue ==
    (evOut # "none" /\ (IsOp(evQuery, "And") \/ IsOp(evQuery, "Or"))) =>
        LET qs == evQuery.f.qs
        IN  /\ IsOp(evQuery, "And") =>
                  (evOut = "true" <=> \A i \in 1..Len(qs) : SubIs(qs, evValue, i, "true"))
            /\ IsOp(evQuery, "Or") =>
                  (evOut = "true" <=> \E i \in 1..Len(qs) : SubIs(qs, evValue, i, "true"))

\* C14: And(q1..qn)(v) is true iff every eval(qi, v) is true; Or(q1..qn)(v)
\* is true iff some eval(qi, v) is true and every sub-query before qi
\* evaluates to false without a fault; the qi are literals, predicates, field
\* maps, nil or nested operators; And() matches every value and Or() none.
C14_AndOrSemantics ==
    (evOut # "none" /\ (IsOp(evQuery, "And") \/ IsOp(evQuery, "Or"))) =>
        LET qs == evQuery.f.qs
        IN  /\ IsOp(evQuery, "And") =>
                  /\ evOut = "true" <=> \A i \in 1..Len(qs) : SubIs(qs, evValue, i, "true")
                  /\ qs = <<>> => evOut = "true"
            /\ IsOp(evQuery, "Or") =>
                  /\ evOut = "true" <=>
                        \E i \in 1..Len(qs) :
                            /\ SubIs(qs, evValue, i, "true")
                            /\ \A j \in 1..(i - 1) : SubIs(qs, evValue, j, "false")
                  /\ qs = <<>> => evOut = "false"

C14_Witness ==
    /\ evQuery = Or(<<MapV("a" :> IntV(1)), Gt(IntV(1))>>)
    /\ evValue = IntV(2)
    /\ evOut = "true"

\* C15: And evaluates its sub-queries left to right and invokes none after the
\* first that is not true, Or none after the first that is not false: the
\* outcome is that of the first deciding sub-query, so a later sub-query that
\* would fault is not invoked.
C15_ShortCircuit ==
    (evOut # "none" /\ (IsOp(evQuery, "And") \/ IsOp(evQuery, "Or"))) =>
        LET qs == evQuery.f.qs
            pass == IF IsOp(evQuery, "And") THEN "true" ELSE "false"
        IN  \A i \in 1..Len(qs) :
                (/\ \A j \in 1..(i - 1) : SubIs(qs, evValue, j, pass)
                 /\ ~SubIs(qs, evValue, i, pass))
                => evOut \in eval(qs[i], evValue)

C15_Witness ==
    /\ evQuery = And(<<IntV(1), FaultyAt2>>)
    /\ evValue = IntV(2)
    /\ evOut = "false"

\* C16: when evaluating q on v raises no fault, Not(q)(v) is the negation of
\* eval(q, v) and Not(Not(q))(v) is eval(q, v).
C16_Negation ==
    (evOut # "none" /\ IsOp(evQuery, "Not")) =>
        LET q == evQuery.f.q
        IN  /\ "panic" \notin eval(q, evValue) =>
                  /\ evOut = "true" <=> eval(q, evValue) = {"false"}
                  /\ evOut = "false" <=> eval(q, evValue) = {"true"}
            /\ (IsOp(q, "Not") /\ "panic" \notin eval(q.f.q, evValue)) =>
                  evOut \in eval(q.f.q, evValue)

C16_Witness ==
    /\ evQuery = Not(Not(Gt(IntV(1))))
    /\ evValue = IntV(2)
    /\ evOut = "true"

\* the predicate p holds of v
Holds(p, v) == eval(p, v) = {"true"}

\* C17: Gte(x)(v) holds iff Gt(x)(v) or Eq(x)(v) does, and Lte(x)(v) iff
\* Lt(x)(v) or Eq(x)(v) does, for every x and v: numbers, strings, booleans,
\* sequences and the rest.
C17_GteIsGtOrEq ==
    evOut # "none" =>
        /\ IsOp(evQuery, "Gte") =>
              (evOut = "true" <=>
                  (Holds(Gt(evQuery.f.arg), evValue) \/ Holds(Eq(evQuery.f.arg), evValue)))
        /\ IsOp(evQuery, "Lte") =>
              (evOut = "true" <=>
                  (Holds(Lt(evQuery.f.arg), evValue) \/ Holds(Eq(evQuery.f.arg), evValue)))

\* C18: a string compared with a numeric threshold raises no error and makes
\* each of Eq, Gt, Gte, Lt and Lte evaluate to false.
C18_MismatchIsFalse ==
    (/\ evOut # "none"
     /\ \E op \in {"Eq", "Gt", "Gte", "Lt", "Lte"} : IsOp(evQuery, op)
     /\ evQuery.f.arg.k \in NumericKinds
     /\ evValue.k = "string")
    => evOut = "false"

---------------------------------------------------------------------------
(* The source specification: one call of JSONLFileSourceStream on a file    *)
(* that opens or not, with a reader on each of the two channels.            *)

Doc1 == JObject("a" :> JNumber(1))
Doc2 == JObject(("a" :> JNumber(2)) @@ ("c" :> JNull))

\* the lines of the test files: empty, white space only, not JSON, documents
Lines ==
    {Line(FALSE, JEmpty), Line(TRUE, JEmpty), Line(FALSE, JInvalid),
     Line(FALSE, Doc1), Line(TRUE, Doc2)}

InitSource ==
    /\ opened \in BOOLEAN
    /\ file \in IF opened THEN SeqsUpTo(Lines, MaxLen) ELSE {<<>>}
    /\ spc = IF opened THEN "scan" ELSE "openErr"
    /\ lineNum = 0
    /\ srcOutput = <<>>
    /\ srcErrCh = <<>>
    /\ srcOutputClosed = FALSE
    /\ srcErrChClosed = FALSE
    /\ gotObjs = <<>>
    /\ gotErrs = <<>>
    /\ data = <<>>
    /\ query = Nil
    /\ skip = 0
    /\ limit = 0
    /\ produced = 0
    /\ inputClosed = FALSE
    /\ pc = "range"
    /\ item = 0
    /\ matched = 0
    /\ sent = 0
    /\ received = 0
    /\ outs = <<>>
    /\ results = <<>>
    /\ errors = <<>>
    /\ outClosed = FALSE
    /\ errClosed = FALSE
    /\ fpc = "idle"
    /\ fresult = <<>>
    /\ ferr = FALSE
    /\ fouts = <<>>
    /\ evQuery = Nil
    /\ evValue = Nil
    /\ evOut = "none"
    /\ CLIIdle

SourceNext ==
    \/ OpenFailSendErr
    \/ OpenFailCloseErrCh
    \/ OpenFailCloseOutput
    \/ SrcScan
    \/ SrcEOF
    \/ SrcReadFail
    \/ SrcSendParseErr
    \/ SrcSendObj
    \/ SrcSendReadErr
    \/ SrcCloseErrCh
    \/ SrcCloseOutput
    \/ RecvObj
    \/ RecvErr

SpecSource == InitSource /\ [][SourceNext]_vars

---------------------------------------------------------------------------
(* Properties of the source specification SpecSource. *)

\* the lines the goroutine has dealt with
Dealt == IF spc \in {"sendParseErr", "sendObj"} THEN lineNum - 1 ELSE lineNum

\* everything sent on output, and on errCh, so far
Delivered == gotObjs \o srcOutput
Reported == gotErrs \o srcErrCh

\* the numbers of the well-formed and of the malformed lines among the first n
WellFormed(n) ==
    SelectSeq([i \in 1..n |-> i], LAMBDA i : file[i].text \in {Doc1, Doc2})
Malformed(n) ==
    SelectSeq([i \in 1..n |-> i], LAMBDA i : file[i].text = JInvalid)

\* the value a document decodes to
ValueOf(doc) ==
    IF doc = Doc1 THEN MapV("a" :> Float64V(1))
    ELSE MapV(("a" :> Float64V(2)) @@ ("c" :> Nil))

\* C19: a malformed line is not fatal to the JSONL source: what it has sent on
\* errCh is one parse error per malformed line read, what it has sent on
\* output is the decoded value of every well-formed line read, in file order,
\* lines after a malformed one included, blank lines add nothing, and it
\* closes errCh and output once the scanner has reached the end of the file
\* (or has failed, which adds one read error).
C19_MalformedLineNotFatal ==
    opened =>
        LET good == WellFormed(Dealt)
            bad == Malformed(Dealt)
            readFailed == \E i \in 1..Len(Reported) : Reported[i] = ReadError
        IN  /\ Delivered =
                  [n \in 1..Len(good) |->
                      [line |-> good[n], obj |-> ValueOf(file[good[n]].text)]]
            /\ SelectSeq(Reported, LAMBDA e : e # ReadError) =
                  [n \in 1..Len(bad) |-> ParseError(bad[n])]
            /\ (srcErrChClosed \/ srcOutputClosed) => (readFailed \/ lineNum = Len(file))
            /\ readFailed => Reported[Len(Reported)] = ReadError
            /\ srcOutputClosed => srcErrChClosed
            /\ spc = "done" => (srcErrChClosed /\ srcOutputClosed)

C19_Witness ==
    /\ opened
    /\ spc = "done"
    /\ file = <<Line(FALSE, JInvalid), Line(TRUE, JEmpty), Line(FALSE, Doc1)>>
    /\ gotErrs = <<ParseError(1)>>
    /\ gotObjs = <<[line |-> 3, obj |-> MapV("a" :> Float64V(1))]>>
    /\ srcErrChClosed
    /\ srcOutputClosed

\* C20: when the file cannot be opened the source sends exactly one error on
\* errCh and nothing on output, then closes errCh and output.
C20_OpenFailure ==
    (~opened /\ spc # "idle") =>
        /\ Delivered = <<>>
        /\ Reported = IF spc = "openErr" THEN <<>> ELSE <<OpenError>>
        /\ srcErrChClosed => spc \in {"openCloseOutput", "done"}
        /\ srcOutputClosed => (srcErrChClosed /\ spc = "done")
        /\ spc = "done" => (srcErrChClosed /\ srcOutputClosed)

C20_Witness ==
    /\ ~opened
    /\ spc = "done"
    /\ gotErrs = <<OpenError>>
    /\ gotObjs = <<>>
    /\ srcErrChClosed
    /\ srcOutputClosed

---------------------------------------------------------------------------
(* Further properties of the specification Spec, in which one call of       *)
(* Filter and one FilterC pipeline run interleaved on the same data and     *)
(* the same query.                                                          *)

C25_StreamPagination ==
    LET ms == PosOf(outs, "true")
    IN  /\ results = Paginate(PosOf(Handled, "true"), skip, limit)
        /\ \A i \in 1..Min(skip, Len(ms)) : ms[i] \notin Range(results)
        /\ limit > 0 => Len(results) <= limit
        /\ sent = Len(results)

C25_Witness ==
    /\ pc = "range"
    /\ ~inputClosed
    /\ skip > 0
    /\ errors # <<>>
    /\ results # <<>>
    /\ results[1] > errors[1]

\* C26: output and errCh are unbuffered.  While the error of a panic is not
\* read the goroutine stays at that send: it receives and emits nothing and
\* closes neither channel; while an emitted match is not read it stays at that
\* send: it receives nothing, reports no error and closes neither channel.
C26_UnbufferedHandOff ==
    /\ [][(pc = "sendErr" /\ errors' = errors) =>
            /\ pc' = "sendErr"
            /\ received' = received
            /\ results' = results
            /\ outClosed' = outClosed
            /\ errClosed' = errClosed]_vars
    /\ [][(pc = "sendOut" /\ results' = results) =>
            /\ pc' = "sendOut"
            /\ received' = received
            /\ errors' = errors
            /\ outClosed' = outClosed
            /\ errClosed' = errClosed]_vars
    /\ [](pc = "sendErr" => (~outClosed /\ ~errClosed /\ outs[Len(outs)] = "panic"))
    /\ [](pc = "sendOut" => (~outClosed /\ ~errClosed /\ outs[Len(outs)] = "true"))

C26_Witness ==
    /\ pc = "sendErr"
    /\ errors = <<>>
    /\ results = <<>>
    /\ inputClosed
    /\ received < produced
    /\ "true" \in eval(query, data[received + 1])

\* C30: Filter is deterministic: for given records, query, skip and limit
\* every call returns the same result and the same error, whatever the order
\* in which the entries of a field map are visited.
C30_BulkDeterministic ==
    fpc = "returned" =>
        \A r \in Filter(data, query, skip, limit) :
            r.result = fresult /\ r.err = ferr

---------------------------------------------------------------------------
(* Further properties of the evaluator specification SpecEval. *)

\* the value of the field c of a record that has it
FieldC(v) == (IF v.k = "ptr" THEN v.elem ELSE v).m["c"]

\* C22: the order places nil before every other value and makes two nils
\* equal: on a nil value, or on a field the record lacks, with a threshold
\* that is not nil, Lt and Lte hold and Gt and Gte do not; on a value that is
\* not nil with a nil threshold Gt and Gte hold and Lt and Lte do not; on nil
\* with a nil threshold Gte and Lte hold and Gt and Lt do not.
C22_NullSortsFirst ==
    evOut # "none" =>
        \A op \in {"Gt", "Gte", "Lt", "Lte"} :
            /\ IsOp(evQuery, op) =>
                  LET x == evQuery.f.arg
                  IN  /\ (evValue = Nil /\ x # Nil) =>
                            evOut = IF op \in {"Lt", "Lte"} THEN "true" ELSE "false"
                      /\ (evValue # Nil /\ x = Nil) =>
                            evOut = IF op \in {"Gt", "Gte"} THEN "true" ELSE "false"
                      /\ (evValue = Nil /\ x = Nil) =>
                            evOut = IF op \in {"Gte", "Lte"} THEN "true" ELSE "false"
            /\ (/\ evQuery \in FieldComparisons
                 /\ IsOp(evQuery.m["c"], op)
                 /\ (~HasField(evValue, "c") \/ FieldC(evValue) = Nil)) =>
                  evOut = IF op \in {"Lt", "Lte"} THEN "true" ELSE "false"

C22_Witness ==
    /\ evQuery = MapV("c" :> Lt(IntV(1)))
    /\ evValue = R1
    /\ evOut = "true"

\* the order has a path for the two values: both strings, both times or both numbers
Orderable(v, x) ==
    \/ v.k = "string" /\ x.k = "string"
    \/ v.k = "time" /\ x.k = "time"
    \/ v.k \in NumericKinds /\ x.k \in NumericKinds

C24_AbsentDistinctFromNull ==
    (/\ evOut # "none"
     /\ evQuery.k = "map"
     /\ "c" \in DOMAIN evQuery.m
     /\ HasField(evValue, "c")
     /\ FieldC(evValue) = Nil) =>
        \A r \in EvalValues :
            ~HasField(r, "c") => getField(evValue, "c") # getField(r, "c")

\* C27: In(x1..xn)(v) is true exactly when Eq(xi)(v) is true for some i, that
\* is when Or(x1..xn)(v) is true, numbers of different kinds included.
C27_InIsOrOfEq ==
    (evOut # "none" /\ IsOp(evQuery, "In")) =>
        LET xs == evQuery.f.vals
        IN  /\ evOut = "true" <=> \E i \in 1..Len(xs) : Holds(Eq(xs[i]), evValue)
            /\ evOut = "true" <=> Holds(Or(xs), evValue)

---------------------------------------------------------------------------
(* cmd/fq/main.go: the command line.  main parses its arguments, builds the *)
(* query with parseFilters and runs the pipeline                            *)
(*   JSONLFileSourceStream -> FilterC -> process.                           *)
(* A filter expression field:operator:value is the record FilterExpr; the   *)
(* text of its value is a number or another word.  The input channel of     *)
(* FilterC is the output channel of the source, and an item is named by the *)
(* number of its line, data holding the decoded value of each line.         *)

\* capacity of errorCh in process
ErrorChCap == 10

NumText(n) == [t |-> "num", n |-> n]
WordText(w) == [t |-> "word", s |-> w]
FilterExpr(field, operator, value) == [field |-> field, op |-> operator, value |-> value]

\* parseArgs for a parameter of type interface{}: the float64 that
\* strconv.ParseFloat returns, or else the string
parseArgs(valueStr) ==
    IF valueStr.t = "num" THEN Float64V(valueStr.n) ELSE StrV(valueStr.s)

\* operatorFuncs[operator] called on the parsed argument
createPredicate(operator, valueStr) ==
    CASE operator = "eq" -> Eq(parseArgs(valueStr))
      [] operator = "gt" -> Gt(parseArgs(valueStr))
      [] operator = "lt" -> Lt(parseArgs(valueStr))
      [] operator = "gte" -> Gte(parseArgs(valueStr))
      [] operator = "lte" -> Lte(parseArgs(valueStr))

\* query[field] = predicate for each filter in turn: a later filter on a
\* field replaces the earlier one
parseFilters(fs) ==
    IF Len(fs) = 0 THEN Nil
    ELSE LET fields == {fs[i].field : i \in 1..Len(fs)}
             last(f) == CHOOSE i \in 1..Len(fs) :
                            /\ fs[i].field = f
                            /\ \A j \in (i + 1)..Len(fs) : fs[j].field # f
         IN  MapV([f \in fields |->
                      createPredicate(fs[last(f)].op, fs[last(f)].value)])

\* FilterC: for item := range input, the input being the source's output
CLIReceive ==
    /\ pc = "range"
    /\ srcOutput # <<>>
    /\ item' = Head(srcOutput).line
    /\ srcOutput' = Tail(srcOutput)
    /\ received' = received + 1
    /\ pc' = "eval"
    /\ UNCHANGED <<argVars, bulkVars, evalVars, cliVars, produced, inputClosed,
                   matched, sent, outs, results, errors, outClosed, errClosed,
                   file, opened, spc, lineNum, srcErrCh, srcOutputClosed,
                   srcErrChClosed, gotObjs, gotErrs>>

\* FilterC: the range ends, the source's output being closed and drained
CLIInputEnd ==
    /\ pc = "range"
    /\ srcOutput = <<>>
    /\ srcOutputClosed
    /\ pc' = "closeErr"
    /\ UNCHANGED <<argVars, bulkVars, evalVars, sourceVars, cliVars, produced,
                   inputClosed, item, matched, sent, received, outs, results,
                   errors, outClosed, errClosed>>

\* output: for result := range resultCh receives what FilterC sends, and
\* prints it
PrintResult ==
    /\ mpc = "output"
    /\ SendOutput

\* output: the range ends when FilterC has closed its output; json.Marshal
\* of a decoded JSON value has not failed
OutputEnd ==
    /\ mpc = "output"
    /\ outClosed
    /\ outputErr' = FALSE
    /\ mpc' = "waitDone"
    /\ UNCHANGED <<argVars, streamVars, bulkVars, evalVars, sourceVars, filters,
                   epc, pending, srcErrNil, filterErrNil, errorCh, done,
                   processErr>>

\* the error goroutine: one round of the select.  A nil channel is never
\* ready; a closed and drained one yields ok = false and is set to nil; a
\* value goes on to the send into errorCh.  filterErrCh is unbuffered, so
\* its value is received together with FilterC's send.
ErrSelect ==
    /\ epc = "select"
    /\ \/ /\ ~srcErrNil
          /\ srcErrCh # <<>>
          /\ pending' = Head(srcErrCh)
          /\ srcErrCh' = Tail(srcErrCh)
          /\ epc' = "forward"
          /\ UNCHANGED <<srcErrNil, filterErrNil, pc, errors>>
       \/ /\ ~srcErrNil
          /\ srcErrCh = <<>>
          /\ srcErrChClosed
          /\ srcErrNil' = TRUE
          /\ epc' = IF filterErrNil THEN "exit" ELSE "select"
          /\ UNCHANGED <<pending, srcErrCh, filterErrNil, pc, errors>>
       \/ /\ ~filterErrNil
          /\ pc = "sendErr"
          /\ errors' = Append(errors, item)
          /\ pc' = "range"
          /\ pending' = [kind |-> "filter", line |-> item]
          /\ epc' = "forward"
          /\ UNCHANGED <<srcErrCh, srcErrNil, filterErrNil>>
       \/ /\ ~filterErrNil
          /\ errClosed
          /\ filterErrNil' = TRUE
          /\ epc' = IF srcErrNil THEN "exit" ELSE "select"
          /\ UNCHANGED <<pending, srcErrCh, srcErrNil, pc, errors>>
    /\ UNCHANGED <<argVars, bulkVars, evalVars, produced, inputClosed, item,
                   matched, sent, received, outs, results, outClosed, errClosed,
                   file, opened, spc, lineNum, srcOutput, srcOutputClosed,
                   srcErrChClosed, gotObjs, gotErrs, filters, errorCh, done,
                   mpc, outputErr, processErr>>

\* the error goroutine: errorCh <- fmt.Errorf("source: %v", err), or
\* "filter: %v"; nothing receives from errorCh before done is closed
ErrForward ==
    /\ epc = "forward"
    /\ Len(errorCh) < ErrorChCap
    /\ errorCh' = Append(errorCh, pending)
    /\ epc' = "select"
    /\ UNCHANGED <<argVars, streamVars, bulkVars, evalVars, sourceVars, filters,
                   pending, srcErrNil, filterErrNil, done, mpc, outputErr,
                   processErr>>

\* the error goroutine: the deferred close(errorCh) and close(done)
ErrExit ==
    /\ epc = "exit"
    /\ done' = TRUE
    /\ epc' = "done"
    /\ UNCHANGED <<argVars, streamVars, bulkVars, evalVars, sourceVars, filters,
                   pending, srcErrNil, filterErrNil, errorCh, mpc, outputErr,
                   processErr>>

\* process: <-done, then the outputErr test and the select on errorCh
ProcessReturn ==
    /\ mpc = "waitDone"
    /\ done
    /\ processErr' = IF outputErr THEN "output"
                     ELSE IF errorCh # <<>> THEN "error"
                     ELSE "nil"
    /\ errorCh' = IF ~outputErr /\ errorCh # <<>> THEN Tail(errorCh) ELSE errorCh
    /\ mpc' = "returned"
    /\ UNCHANGED <<argVars, streamVars, bulkVars, evalVars, sourceVars, filters,
                   epc, pending, srcErrNil, filterErrNil, done, outputErr>>

\* the lines of the files given to the command line
CLILines == {Line(FALSE, JInvalid), Line(FALSE, Doc1), Line(TRUE, Doc2)}

\* the -filter arguments given to the command line
CLIFilters ==
    {<<>>,
     <<FilterExpr("a", "eq", NumText(1))>>,
     <<FilterExpr("a", "gt", NumText(1)), FilterExpr("a", "lt", NumText(3))>>,
     <<FilterExpr("a", "gte", NumText(2)), FilterExpr("c", "lte", WordText(<<1>>))>>}

\* small files with every combination of filters, -skip and -limit; a file
\* with more malformed lines than errorCh holds; a file in which, once the
\* limit is reached, more records are left than the source's buffer holds
CLIRuns ==
    {[file |-> f, opened |-> TRUE, filters |-> fs, skip |-> sk, limit |-> lim] :
        f \in SeqsUpTo(CLILines, MaxLen), fs \in CLIFilters,
        sk \in 0..1, lim \in 0..1}
    \cup {[file |-> <<>>, opened |-> FALSE, filters |-> <<>>, skip |-> 0, limit |-> 0]}
    \cup {[file |-> [i \in 1..(ErrorChCap + 1) |-> Line(FALSE, JInvalid)],
           opened |-> TRUE, filters |-> <<>>, skip |-> 0, limit |-> 0]}
    \cup {[file |-> [i \in 1..(OutputCap + 3) |-> Line(FALSE, Doc1)],
           opened |-> TRUE,
           filters |-> <<FilterExpr("a", "eq", NumText(1))>>,
           skip |-> 0, limit |-> 1]}

\* main, after JSONLFileSourceStream, FilterC and process have started
InitCLI ==
    /\ \E run \in CLIRuns :
          /\ file = run.file
          /\ opened = run.opened
          /\ filters = run.filters
          /\ skip = run.skip
          /\ limit = run.limit
    /\ query = parseFilters(filters)
    /\ data = [i \in 1..Len(file) |-> Unmarshal(file[i].text).obj]
    /\ spc = IF opened THEN "scan" ELSE "openErr"
    /\ lineNum = 0
    /\ srcOutput = <<>>
    /\ srcErrCh = <<>>
    /\ srcOutputClosed = FALSE
    /\ srcErrChClosed = FALSE
    /\ gotObjs = <<>>
    /\ gotErrs = <<>>
    /\ produced = 0
    /\ inputClosed = FALSE
    /\ pc = "range"
    /\ item = 0
    /\ matched = 0
    /\ sent = 0
    /\ received = 0
    /\ outs = <<>>
    /\ results = <<>>
    /\ errors = <<>>
    /\ outClosed = FALSE
    /\ errClosed = FALSE
    /\ fpc = "idle"
    /\ fresult = <<>>
    /\ ferr = FALSE
    /\ fouts = <<>>
    /\ evQuery = Nil
    /\ evValue = Nil
    /\ evOut = "none"
    /\ epc = "select"
    /\ pending = OpenError
    /\ srcErrNil = FALSE
    /\ filterErrNil = FALSE
    /\ errorCh = <<>>
    /\ done = FALSE
    /\ mpc = "output"
    /\ outputErr = FALSE
    /\ processErr = "none"

\* the steps of the source, of FilterC, of the error goroutine and of process
CLINext ==
    \/ OpenFailSendErr
    \/ OpenFailCloseErrCh
    \/ OpenFailCloseOutput
    \/ SrcScan
    \/ SrcEOF
    \/ SrcReadFail
    \/ SrcSendParseErr
    \/ SrcSendObj
    \/ SrcSendReadErr
    \/ SrcCloseErrCh
    \/ SrcCloseOutput
    \/ CLIReceive
    \/ CLIInputEnd
    \/ Evaluate
    \/ CloseErr
    \/ CloseOut
    \/ PrintResult
    \/ OutputEnd
    \/ ErrSelect
    \/ ErrForward
    \/ ErrExit
    \/ ProcessReturn

SpecCLI == InitCLI /\ [][CLINext]_vars

---------------------------------------------------------------------------
(* Properties of the command line specification SpecCLI. *)

\* the filter expression fx holds of the record v
Satisfies(fx, v) ==
    Holds(createPredicate(fx.op, fx.value), getField(v, fx.field))

\* C28: the command line ANDs its filter expressions: a record is printed
\* only if it satisfies every one of them, two expressions on the same field
\* included.
C28_FiltersAreAnded ==
    mpc # "idle" =>
        \A i \in 1..Len(results) : \A k \in 1..Len(filters) :
            Satisfies(filters[k], data[results[i]])

\* C29: the command line pipeline terminates: as long as process has not
\* returned, one of the goroutines can take a step.
C29_PipelineNeverStuck ==
    mpc \in {"output", "waitDone"} => ENABLED CLINext

====
